---- MODULE Spec2Model ----
(***************************************************************************)
(* Verification toggle of an event (POST /api/admin/events/[id]/verify)    *)
(* and the lifecycle of the badge asset it references.                     *)
(*                                                                         *)
(* The repository holds three versions of the POST handler:                *)
(*   "cloud"     media-hosting upload, route.ts lines 7-64                 *)
(*   "guarded"   local disk, unlink wrapped in try/catch, route.ts 619-744 *)
(*   "unguarded" local disk, bare unlink, unnamed/part_000 lines 15-105    *)
(* One of them is deployed (variant); a handler is modelled step by step,  *)
(* one action per awaited or throwing operation, because every such        *)
(* operation may fail and end the request in the catch block.              *)
(***************************************************************************)
EXTENDS Integers, FiniteSets, Sequences, TLC

\* ------------------------------------------------------------------ bounds
MaxTime == 3
NumReqs == 2

\* --------------------------------------------------------------- constants
Null == "NULL"
Undefined == "UNDEFINED"
NoDate == 0
DefaultBadge == "/badge/VerifiedBADGE (1).png"
FallbackActor == "Admin"

Variants == {"cloud", "guarded", "unguarded"}
Reqs == 1..NumReqs
ExistingId == "e1"
EventIds == {ExistingId, "e404"}
BadgeFiles == {"none", "empty", "file"}
Emails == {"admin@biz.com", "root@biz.com", Null, Undefined}

NoSession == [present |-> FALSE, role |-> Undefined, email |-> Undefined]
Sessions ==
  {NoSession} \cup
  [present : {TRUE}, role : {"ADMIN", "SUPER_ADMIN"}, email : Emails] \cup
  [present : {TRUE}, role : {"USER"}, email : {"admin@biz.com"}]

Unverified ==
  [isVerified |-> FALSE, verifiedAt |-> NoDate,
   verifiedBy |-> Null, verifiedBadgeImage |-> Null]

NoRequest ==
  [session |-> NoSession, id |-> ExistingId,
   isVerified |-> FALSE, badgeFile |-> "none"]

\* No response body yet.
NoBody == <<>>

\* No response of the read and edit endpoints is pending.
NoReply ==
  [op |-> "none", session |-> NoSession, id |-> ExistingId,
   status |-> 0, threw |-> FALSE, body |-> NoBody]

Titles == {"Expo", "Fair"}
Steps == {"store", "read", "delete", "update"}

\* The message of the exception a failing step throws.
ErrorMessage(step) == "internal: " \o step \o " failed"

\* The badge options of the dialog: id and imageUrl.
BADGE_OPTIONS ==
  [default  |-> "/badge/VerifiedBADGE (1).png",
   premium  |-> "/badge/premium-badge.png",
   featured |-> "/badge/featured-badge.png",
   custom   |-> ""]

\* onVerifyComplete has not been called.
NoCall == <<>>

\* The dialog is closed: the initial useState values.
NoDialog ==
  [pc |-> "closed", selectedOption |-> "default", customImage |-> FALSE,
   currentBadgeImage |-> Undefined, isLoading |-> FALSE, badgeImageUrl |-> "",
   completed |-> NoCall, toast |-> "", slot |-> 0, session |-> NoSession,
   netFailed |-> FALSE, status |-> 0]

VARIABLES
  variant,         \* which version of the handler is deployed
  event,           \* the four verification fields of the event row "e1"
  assets,          \* references of the badge assets that exist in storage
  now,             \* the clock (Date.now(), new Date())
  pc,              \* position of each request in the handler
  req,             \* session, id and form fields of each request
  badgeImagePath,  \* local badgeImagePath / badgeUrl
  currentEvent,    \* local currentEvent?.verifiedBadgeImage
  status,          \* HTTP status of the response, 0 while none
  pre,             \* history: the event row when the request arrived
  stored,          \* history: assets written by the request
  removed,         \* history: assets unlinked by the request
  committed,       \* history: prisma.event.update of the request succeeded
  failed,          \* history: steps of the request that threw
  body,            \* JSON body of the response of each request
  title,           \* the title of the event row "e1"
  reply,           \* response of the last verify GET, list GET or PATCH
  prevPlain,       \* history: the last answered POST was a successful
                   \* isVerified=true without badge file
  side,            \* the three handler versions run side by side
  arrived,         \* history: the clock when the request arrived, 0 if none
  dialog           \* state of the verification dialog (VerifyBadgeModal)

vars ==
  <<variant, event, assets, now, pc, req, badgeImagePath, currentEvent,
    status, pre, stored, removed, committed, failed, body, title, reply,
    prevPlain, side, arrived, dialog>>

\* What the verify POST never touches.
others == <<title, reply, side, dialog>>

\* ------------------------------------------------------- pure decision logic

\* AuthStatus without the role check.
AuthStatusAnyRole(session) ==
  IF ~session.present THEN 401 ELSE 200

\* 401 without a session, 403 unless ADMIN or SUPER_ADMIN, else continue.
AuthStatus(session) ==
  IF ~session.present THEN 401
  ELSE IF session.role # "ADMIN" /\ session.role # "SUPER_ADMIN" THEN 403
  ELSE 200

\* ShouldStore that forgets to test whether a file was sent.
ShouldStoreWhenVerified(v, isVerified, badgeFile) ==
  isVerified

\* The condition under which the handler writes the uploaded badge.
ShouldStore(v, isVerified, badgeFile) ==
  IF v = "cloud"
    THEN isVerified /\ badgeFile # "none"
    ELSE badgeFile = "file"

\* Reference of a freshly stored asset; unique through the timestamp.
NewRef(v, t) ==
  IF v = "cloud"
    THEN "https://res.cloudinary.com/verified-badges/" \o ToString(t)
    ELSE "/badges/badge-" \o ToString(t)

\* ShouldDelete without the comparison against the default badge.
ShouldDeleteAnyBadge(cur, isVerified) ==
  /\ cur # Null
  /\ ~isVerified

\* The guard of the "delete old badge" block of the local-disk handlers.
ShouldDelete(cur, isVerified) ==
  /\ cur # Null
  /\ cur # DefaultBadge
  /\ ~isVerified

\* badgeImagePath || "/badge/VerifiedBADGE (1).png"
BadgeOrDefault(path) ==
  IF path = Null THEN DefaultBadge ELSE path

\* Value written to verifiedBy. The guarded handler falls back to "Admin";
\* the others pass session.user.email through, and an undefined value makes
\* the update leave the column as it is.
VerifiedByValue(v, email, oldBy) ==
  IF v = "guarded"
    THEN (IF email \in {Null, Undefined} THEN FallbackActor ELSE email)
    ELSE (IF email = Undefined THEN oldBy ELSE email)

\* UpdateData that forgets to clear verifiedBadgeImage on removal.
UpdateDataKeepsBadge(v, isVerified, email, path, t, old) ==
  IF isVerified
    THEN [isVerified |-> TRUE,
          verifiedAt |-> t,
          verifiedBy |-> VerifiedByValue(v, email, old.verifiedBy),
          verifiedBadgeImage |-> BadgeOrDefault(path)]
    ELSE [isVerified |-> FALSE,
          verifiedAt |-> NoDate,
          verifiedBy |-> Null,
          verifiedBadgeImage |-> old.verifiedBadgeImage]

\* The row after prisma.event.update({ data }).
UpdateData(v, isVerified, email, path, t, old) ==
  IF isVerified
    THEN [isVerified |-> TRUE,
          verifiedAt |-> t,
          verifiedBy |-> VerifiedByValue(v, email, old.verifiedBy),
          verifiedBadgeImage |-> BadgeOrDefault(path)]
    ELSE [isVerified |-> FALSE,
          verifiedAt |-> NoDate,
          verifiedBy |-> Null,
          verifiedBadgeImage |-> Null]

\* Body of a 401 / 403 response.
AuthBody(code) ==
  IF code = 401 THEN [error |-> "Unauthorized"] ELSE [error |-> "Forbidden"]

\* Body of the 500 response of the catch block.
ErrorBody(v) ==
  IF v = "cloud"
    THEN [error |-> "Failed to verify event"]
    ELSE [success |-> FALSE, error |-> "Failed to update verification"]

\* Body of the 200 response, built from the row prisma.event.update returned.
SuccessBody(v, id, ttl, isVerified, row) ==
  IF v = "cloud"
    THEN [success |-> TRUE,
          event |-> [id |-> id,
                     isVerified |-> row.isVerified,
                     verifiedBadgeImage |-> row.verifiedBadgeImage]]
    ELSE [success |-> TRUE,
          message |-> IF isVerified THEN "Event verified successfully"
                                    ELSE "Verification removed",
          event |-> [id |-> id,
                     title |-> ttl,
                     isVerified |-> row.isVerified,
                     verifiedAt |-> row.verifiedAt,
                     verifiedBy |-> row.verifiedBy,
                     verifiedBadgeImage |-> row.verifiedBadgeImage]]

\* The cloud handler goes from the upload straight to the update.
AfterStore(v) ==
  IF v = "cloud" THEN "update" ELSE "read"

\* The whole handler as a function: the row, the assets and the status a
\* request rq ends with when it runs alone from row ev and assets as. ts is
\* the clock at the store step, tu the clock at the update, and fail the
\* steps that throw when they are reached.
Handle(v, ev, as, rq, ts, tu, fail) ==
  LET doStore  == ShouldStore(v, rq.isVerified, rq.badgeFile)
      as1      == IF doStore THEN as \cup {NewRef(v, ts)} ELSE as
      path     == IF doStore THEN NewRef(v, ts) ELSE Null
      cur      == IF rq.id = ExistingId THEN ev.verifiedBadgeImage ELSE Null
      doDelete == /\ v # "cloud"
                  /\ ShouldDelete(cur, rq.isVerified)
                  /\ cur \in as1
      as2      == IF doDelete /\ "delete" \notin fail THEN as1 \ {cur} ELSE as1
  IN  IF AuthStatus(rq.session) # 200
        THEN [event |-> ev, assets |-> as, status |-> AuthStatus(rq.session)]
      ELSE IF doStore /\ "store" \in fail
        THEN [event |-> ev, assets |-> as, status |-> 500]
      ELSE IF v # "cloud" /\ "read" \in fail
        THEN [event |-> ev, assets |-> as1, status |-> 500]
      ELSE IF doDelete /\ "delete" \in fail /\ v = "unguarded"
        THEN [event |-> ev, assets |-> as1, status |-> 500]
      ELSE IF rq.id # ExistingId \/ "update" \in fail
        THEN [event |-> ev, assets |-> as2, status |-> 500]
      ELSE [event |-> UpdateData(v, rq.isVerified, rq.session.email, path, tu, ev),
            assets |-> as2, status |-> 200]

\* ------------------------------------------------------------------- state

Init ==
  /\ variant \in Variants
  /\ event = Unverified
  /\ assets = {DefaultBadge}
  /\ now = 0
  /\ pc = [r \in Reqs |-> "idle"]
  /\ req = [r \in Reqs |-> NoRequest]
  /\ badgeImagePath = [r \in Reqs |-> Null]
  /\ currentEvent = [r \in Reqs |-> Null]
  /\ status = [r \in Reqs |-> 0]
  /\ pre = [r \in Reqs |-> Unverified]
  /\ stored = [r \in Reqs |-> {}]
  /\ removed = [r \in Reqs |-> {}]
  /\ committed = [r \in Reqs |-> FALSE]
  /\ failed = [r \in Reqs |-> {}]
  /\ body = [r \in Reqs |-> NoBody]
  /\ title = "Expo"
  /\ reply = NoReply
  /\ prevPlain = FALSE
  /\ side = [v \in Variants |->
              [event |-> Unverified, assets |-> {DefaultBadge}, status |-> 0]]
  /\ arrived = [r \in Reqs |-> 0]
  /\ dialog = NoDialog

\* The catch block: the step threw, the response is a 500.
Throw(r, step) ==
  /\ pc' = [pc EXCEPT ![r] = "done"]
  /\ status' = [status EXCEPT ![r] = 500]
  /\ failed' = [failed EXCEPT ![r] = @ \cup {step}]
  /\ body' = [body EXCEPT ![r] = ErrorBody(variant)]

\* StoreFailed with the error swallowed: the handler carries on.
StoreFailedSwallowed(r) ==
  /\ pc' = [pc EXCEPT ![r] = AfterStore(variant)]
  /\ failed' = [failed EXCEPT ![r] = @ \cup {"store"}]
  /\ UNCHANGED <<assets, badgeImagePath, stored, status, body>>

\* The upload or the file write threw.
StoreFailed(r) ==
  /\ Throw(r, "store")
  /\ UNCHANGED <<assets, badgeImagePath, stored>>

\* A request arrives: session check and form parsing.
Accept(r, sessions, ids, files) ==
  /\ now < MaxTime
  /\ \E s \in sessions, id \in ids, v \in BOOLEAN, f \in files :
       /\ req' = [req EXCEPT ![r] =
                    [session |-> s, id |-> id, isVerified |-> v, badgeFile |-> f]]
       /\ IF AuthStatus(s) # 200
            THEN /\ pc' = [pc EXCEPT ![r] = "done"]
                 /\ status' = [status EXCEPT ![r] = AuthStatus(s)]
                 /\ body' = [body EXCEPT ![r] = AuthBody(AuthStatus(s))]
            ELSE /\ pc' = [pc EXCEPT ![r] = "store"]
                 /\ UNCHANGED <<status, body>>
  /\ now' = now + 1
  /\ pre' = [pre EXCEPT ![r] = event]
  /\ arrived' = [arrived EXCEPT ![r] = now + 1]
  /\ UNCHANGED <<variant, event, assets, badgeImagePath, currentEvent,
                 stored, removed, committed, failed, prevPlain, others>>

\* Requests are served one after the other.
Receive(r) ==
  /\ \A q \in Reqs : pc[q] = "idle"
  /\ reply = NoReply
  /\ Accept(r, Sessions, EventIds, BadgeFiles)

\* The badge upload block.
StoreBadge(r) ==
  /\ pc[r] = "store"
  /\ IF ShouldStore(variant, req[r].isVerified, req[r].badgeFile)
       THEN \/ /\ assets' = assets \cup {NewRef(variant, now)}
               /\ badgeImagePath' = [badgeImagePath EXCEPT ![r] = NewRef(variant, now)]
               /\ stored' = [stored EXCEPT ![r] = @ \cup {NewRef(variant, now)}]
               /\ pc' = [pc EXCEPT ![r] = AfterStore(variant)]
               /\ UNCHANGED <<status, failed, body>>
            \/ StoreFailed(r)
       ELSE /\ pc' = [pc EXCEPT ![r] = AfterStore(variant)]
            /\ UNCHANGED <<assets, badgeImagePath, stored, status, failed, body>>
  /\ UNCHANGED <<variant, event, now, req, currentEvent, pre, removed, committed,
                 prevPlain, arrived, others>>

\* prisma.event.findUnique of the local-disk handlers.
ReadCurrent(r) ==
  /\ pc[r] = "read"
  /\ \/ /\ currentEvent' = [currentEvent EXCEPT ![r] =
                              IF req[r].id = ExistingId
                                THEN event.verifiedBadgeImage ELSE Null]
        /\ pc' = [pc EXCEPT ![r] = "delete"]
        /\ UNCHANGED <<status, failed, body>>
     \/ /\ Throw(r, "read")
        /\ UNCHANGED currentEvent
  /\ UNCHANGED <<variant, event, assets, now, req, badgeImagePath,
                 pre, stored, removed, committed, prevPlain, arrived, others>>

\* The "delete old badge" block of the local-disk handlers.
DeleteOld(r) ==
  /\ pc[r] = "delete"
  /\ IF ShouldDelete(currentEvent[r], req[r].isVerified) /\ currentEvent[r] \in assets
       THEN \/ /\ assets' = assets \ {currentEvent[r]}
               /\ removed' = [removed EXCEPT ![r] = @ \cup {currentEvent[r]}]
               /\ pc' = [pc EXCEPT ![r] = "update"]
               /\ UNCHANGED <<status, failed, body>>
            \/ /\ variant = "guarded"
               /\ pc' = [pc EXCEPT ![r] = "update"]
               /\ failed' = [failed EXCEPT ![r] = @ \cup {"delete"}]
               /\ UNCHANGED <<assets, removed, status, body>>
            \/ /\ variant = "unguarded"
               /\ Throw(r, "delete")
               /\ UNCHANGED <<assets, removed>>
       ELSE /\ pc' = [pc EXCEPT ![r] = "update"]
            /\ UNCHANGED <<assets, removed, status, failed, body>>
  /\ UNCHANGED <<variant, event, now, req, badgeImagePath, currentEvent,
                 pre, stored, committed, prevPlain, arrived, others>>

\* UpdateEvent that builds the row from the request's snapshot of the event
\* instead of the row the database holds at the update.
UpdateEventFromSnapshot(r) ==
  /\ pc[r] = "update"
  /\ \/ /\ req[r].id = ExistingId
        /\ event' = UpdateData(variant, req[r].isVerified, req[r].session.email,
                               badgeImagePath[r], now, pre[r])
        /\ committed' = [committed EXCEPT ![r] = TRUE]
        /\ pc' = [pc EXCEPT ![r] = "done"]
        /\ status' = [status EXCEPT ![r] = 200]
        /\ body' = [body EXCEPT ![r] =
                      SuccessBody(variant, req[r].id, title, req[r].isVerified, event')]
        /\ UNCHANGED failed
     \/ /\ Throw(r, "update")
        /\ UNCHANGED <<event, committed>>
  /\ UNCHANGED <<variant, assets, now, req, badgeImagePath, currentEvent,
                 pre, stored, removed, prevPlain, arrived, others>>

\* prisma.event.update and the success response.
UpdateEvent(r) ==
  /\ pc[r] = "update"
  /\ \/ /\ req[r].id = ExistingId
        /\ event' = UpdateData(variant, req[r].isVerified, req[r].session.email,
                               badgeImagePath[r], now, event)
        /\ committed' = [committed EXCEPT ![r] = TRUE]
        /\ pc' = [pc EXCEPT ![r] = "done"]
        /\ status' = [status EXCEPT ![r] = 200]
        /\ body' = [body EXCEPT ![r] =
                      SuccessBody(variant, req[r].id, title, req[r].isVerified, event')]
        /\ UNCHANGED failed
     \/ /\ Throw(r, "update")
        /\ UNCHANGED <<event, committed>>
  /\ UNCHANGED <<variant, assets, now, req, badgeImagePath, currentEvent,
                 pre, stored, removed, prevPlain, arrived, others>>

\* The response is sent; the request's locals go away.
Respond(r) ==
  /\ pc[r] = "done"
  /\ pc' = [pc EXCEPT ![r] = "idle"]
  /\ req' = [req EXCEPT ![r] = NoRequest]
  /\ badgeImagePath' = [badgeImagePath EXCEPT ![r] = Null]
  /\ currentEvent' = [currentEvent EXCEPT ![r] = Null]
  /\ status' = [status EXCEPT ![r] = 0]
  /\ pre' = [pre EXCEPT ![r] = Unverified]
  /\ stored' = [stored EXCEPT ![r] = {}]
  /\ removed' = [removed EXCEPT ![r] = {}]
  /\ committed' = [committed EXCEPT ![r] = FALSE]
  /\ failed' = [failed EXCEPT ![r] = {}]
  /\ body' = [body EXCEPT ![r] = NoBody]
  /\ prevPlain' = (status[r] = 200 /\ req[r].isVerified /\ req[r].badgeFile = "none")
  /\ arrived' = [arrived EXCEPT ![r] = 0]
  /\ UNCHANGED <<variant, event, assets, now, others>>

\* --------------------------------------- verify GET, event list GET, PATCH
\* These handlers await one database call; each is one step. They are served
\* between verify POSTs, and their response stays in reply until it is sent.

ApiSessions ==
  Sessions \cup {[present |-> TRUE, role |-> "SUB_ADMIN", email |-> "admin@biz.com"]}

\* The subset of the row the verify GET selects.
Selected(id, ttl, ev) ==
  [id |-> id, title |-> ttl,
   isVerified |-> ev.isVerified, verifiedAt |-> ev.verifiedAt,
   verifiedBy |-> ev.verifiedBy, verifiedBadgeImage |-> ev.verifiedBadgeImage]

\* GetReply without the test for a missing event.
GetReplyNo404(s, id, threw, ev, ttl) ==
  IF ~s.present
    THEN [op |-> "GET", session |-> s, id |-> id, status |-> 401, threw |-> FALSE,
          body |-> [error |-> "Unauthorized"]]
  ELSE IF threw
    THEN [op |-> "GET", session |-> s, id |-> id, status |-> 500, threw |-> TRUE,
          body |-> [success |-> FALSE,
                    error |-> "Failed to fetch verification status"]]
  ELSE [op |-> "GET", session |-> s, id |-> id, status |-> 200, threw |-> FALSE,
        body |-> [success |-> TRUE, event |-> Selected(id, ttl, ev)]]

\* The response of GET /api/admin/events/[id]/verify.
GetReply(s, id, threw, ev, ttl) ==
  IF ~s.present
    THEN [op |-> "GET", session |-> s, id |-> id, status |-> 401, threw |-> FALSE,
          body |-> [error |-> "Unauthorized"]]
  ELSE IF threw
    THEN [op |-> "GET", session |-> s, id |-> id, status |-> 500, threw |-> TRUE,
          body |-> [success |-> FALSE,
                    error |-> "Failed to fetch verification status"]]
  ELSE IF id # ExistingId
    THEN [op |-> "GET", session |-> s, id |-> id, status |-> 404, threw |-> FALSE,
          body |-> [error |-> "Event not found"]]
  ELSE [op |-> "GET", session |-> s, id |-> id, status |-> 200, threw |-> FALSE,
        body |-> [success |-> TRUE, event |-> Selected(id, ttl, ev)]]

\* The response of the event list GET.
ListReply(s, threw, ev, ttl) ==
  IF ~s.present \/ (s.role # "SUPER_ADMIN" /\ s.role # "SUB_ADMIN")
    THEN [op |-> "LIST", session |-> s, id |-> ExistingId, status |-> 401,
          threw |-> FALSE, body |-> [error |-> "Unauthorized"]]
  ELSE IF threw
    THEN [op |-> "LIST", session |-> s, id |-> ExistingId, status |-> 500,
          threw |-> TRUE,
          body |-> [success |-> FALSE,
                    error |-> "Internal server error",
                    details |-> ErrorMessage("findMany")]]
  ELSE [op |-> "LIST", session |-> s, id |-> ExistingId, status |-> 200,
        threw |-> FALSE,
        body |-> [success |-> TRUE, events |-> <<Selected(ExistingId, ttl, ev)>>]]

\* The title after the PATCH: only a key present in the body is written.
PatchedTitle(newTitle, ttl) ==
  IF newTitle = Undefined THEN ttl ELSE newTitle

\* The response of the event PATCH; data is the parsed request body.
PatchReply(s, id, newTitle, threw, ev, ttl) ==
  IF AuthStatus(s) # 200
    THEN [op |-> "PATCH", session |-> s, id |-> id, status |-> AuthStatus(s),
          threw |-> FALSE, body |-> AuthBody(AuthStatus(s)),
          data |-> [title |-> newTitle]]
  ELSE IF threw \/ id # ExistingId
    THEN [op |-> "PATCH", session |-> s, id |-> id, status |-> 500,
          threw |-> TRUE, body |-> [error |-> "Failed to update event"],
          data |-> [title |-> newTitle]]
  ELSE [op |-> "PATCH", session |-> s, id |-> id, status |-> 200,
        threw |-> FALSE,
        body |-> [success |-> TRUE,
                  event |-> [id |-> id,
                             title |-> PatchedTitle(newTitle, ttl),
                             verifiedBadgeImage |-> ev.verifiedBadgeImage]],
        data |-> [title |-> newTitle]]

\* No request is being served.
Quiet ==
  /\ \A q \in Reqs : pc[q] = "idle"
  /\ reply = NoReply

GetVerify ==
  /\ Quiet
  /\ \E s \in ApiSessions, id \in EventIds, threw \in BOOLEAN :
       reply' = GetReply(s, id, threw, event, title)
  /\ UNCHANGED <<variant, event, assets, now, pc, req, badgeImagePath,
                 currentEvent, status, pre, stored, removed, committed, failed,
                 body, title, prevPlain, side, arrived, dialog>>

ListEvents ==
  /\ Quiet
  /\ \E s \in ApiSessions, threw \in BOOLEAN :
       reply' = ListReply(s, threw, event, title)
  /\ UNCHANGED <<variant, event, assets, now, pc, req, badgeImagePath,
                 currentEvent, status, pre, stored, removed, committed, failed,
                 body, title, prevPlain, side, arrived, dialog>>

\* Patch whose update data also resets the verification flag.
PatchClearsVerification(sessions, ids) ==
  /\ \E s \in sessions, id \in ids, newTitle \in Titles \cup {Undefined},
        threw \in BOOLEAN :
       /\ reply' = PatchReply(s, id, newTitle, threw, event, title)
       /\ title' = IF reply'.status = 200 THEN PatchedTitle(newTitle, title)
                                          ELSE title
       /\ event' = IF reply'.status = 200 THEN [event EXCEPT !.isVerified = FALSE]
                                          ELSE event
  /\ UNCHANGED <<variant, assets, now, pc, req, badgeImagePath,
                 currentEvent, status, pre, stored, removed, committed, failed,
                 body, prevPlain, side, arrived, dialog>>

\* The event PATCH: session check, body parsing, one prisma.event.update.
Patch(sessions, ids) ==
  /\ \E s \in sessions, id \in ids, newTitle \in Titles \cup {Undefined},
        threw \in BOOLEAN :
       /\ reply' = PatchReply(s, id, newTitle, threw, event, title)
       /\ title' = IF reply'.status = 200 THEN PatchedTitle(newTitle, title)
                                          ELSE title
  /\ UNCHANGED <<variant, event, assets, now, pc, req, badgeImagePath,
                 currentEvent, status, pre, stored, removed, committed, failed,
                 body, prevPlain, side, arrived, dialog>>

PatchEvent ==
  /\ Quiet
  /\ Patch(ApiSessions, EventIds)

\* The response of a GET or PATCH is sent.
Close ==
  /\ reply # NoReply
  /\ reply' = NoReply
  /\ UNCHANGED <<variant, event, assets, now, pc, req, badgeImagePath,
                 currentEvent, status, pre, stored, removed, committed, failed,
                 body, title, prevPlain, side, arrived, dialog>>

Next ==
  \E r \in Reqs :
    \/ Receive(r)
    \/ StoreBadge(r)
    \/ ReadCurrent(r)
    \/ DeleteOld(r)
    \/ UpdateEvent(r)
    \/ Respond(r)

Spec == Init /\ [][Next]_vars

\* The verify POST together with the other endpoints of the event.
NextApi ==
  \/ \E r \in Reqs :
       \/ Receive(r)
       \/ StoreBadge(r)
       \/ ReadCurrent(r)
       \/ DeleteOld(r)
       \/ UpdateEvent(r)
       \/ Respond(r)
  \/ GetVerify
  \/ ListEvents
  \/ PatchEvent
  \/ Close

SpecApi == Init /\ [][NextApi]_vars

\* ------------------------------------------------- the versions side by side
\* The three versions of the handler receive the same request, by the same
\* actor, with the same steps failing, each on its own row and assets.
SideStep ==
  /\ now < MaxTime
  /\ \E s \in Sessions, id \in EventIds, v \in BOOLEAN, f \in BadgeFiles,
        fail \in SUBSET Steps :
       side' = [x \in Variants |->
                  Handle(x, side[x].event, side[x].assets,
                         [session |-> s, id |-> id, isVerified |-> v, badgeFile |-> f],
                         now + 1, now + 1, fail)]
  /\ now' = now + 1
  /\ UNCHANGED <<variant, event, assets, pc, req, badgeImagePath, currentEvent,
                 status, pre, stored, removed, committed, failed, body, title,
                 reply, prevPlain, arrived, dialog>>

InitSide ==
  /\ Init
  /\ variant = "cloud"

NextSide == SideStep

SpecSide == InitSide /\ [][NextSide]_vars

\* ------------------------------------------------- two concurrent requests
\* Two local-disk verify POSTs on the same event whose steps interleave.
\* The second request arrives before the first has taken a step, and the
\* responses are sent when both are through, so that exactly two requests
\* overlap and every interleaving of their steps is a behaviour.
Pair == {1, 2}
LocalVariants == {"guarded", "unguarded"}
ConcSessions ==
  [present : {TRUE}, role : {"ADMIN"}, email : {"admin@biz.com", Undefined}]
ConcFiles == {"none", "file"}

ReceiveConc(r) ==
  /\ pc[r] = "idle"
  /\ \A q \in Pair \ {r} :
       pc[q] = "idle" \/ (pc[q] = "store" /\ arrived[q] = now)
  /\ Accept(r, ConcSessions, {ExistingId}, ConcFiles)

RespondConc(r) ==
  /\ \A q \in Pair : pc[q] \in {"idle", "done"}
  /\ Respond(r)

InitConc ==
  /\ Init
  /\ variant \in LocalVariants

NextConc ==
  \E r \in Pair :
    \/ ReceiveConc(r)
    \/ StoreBadge(r)
    \/ ReadCurrent(r)
    \/ DeleteOld(r)
    \/ UpdateEvent(r)
    \/ RespondConc(r)

SpecConc == InitConc /\ [][NextConc]_vars

\* ------------------------------------------- PATCH during a verify POST
\* Verify POSTs are served one after the other while the event PATCH can be
\* served at any moment, also between two steps of a POST.
PatchSessions ==
  {NoSession,
   [present |-> TRUE, role |-> "ADMIN", email |-> "admin@biz.com"],
   [present |-> TRUE, role |-> "SUB_ADMIN", email |-> "admin@biz.com"]}

ReceiveSeq(r) ==
  /\ \A q \in Reqs : pc[q] = "idle"
  /\ reply = NoReply
  /\ Accept(r, PatchSessions, {ExistingId}, ConcFiles)

PatchAnytime ==
  /\ reply = NoReply
  /\ Patch(PatchSessions, {ExistingId})

NextPatch ==
  \/ \E r \in Reqs :
       \/ ReceiveSeq(r)
       \/ StoreBadge(r)
       \/ ReadCurrent(r)
       \/ DeleteOld(r)
       \/ UpdateEvent(r)
       \/ Respond(r)
  \/ PatchAnytime
  \/ Close

SpecPatch == Init /\ [][NextPatch]_vars

\* ------------------------------------------------ the verification dialog
\* The dialog of an administrator next to verify POSTs of other clients. The
\* dialog is opened while the server is idle, and other clients wait until it
\* is closed again.

\* The dialog is opened on the event; the user picks an option and a file.
OpenDialog ==
  /\ dialog.pc = "closed"
  /\ \A q \in Reqs : pc[q] = "idle"
  /\ \E opt \in DOMAIN BADGE_OPTIONS, img \in BOOLEAN :
       dialog' = [NoDialog EXCEPT
                    !.pc = "open",
                    !.selectedOption = opt,
                    !.customImage = img,
                    !.currentBadgeImage =
                       IF event.verifiedBadgeImage = Null
                         THEN Undefined ELSE event.verifiedBadgeImage]
  /\ UNCHANGED <<variant, event, assets, now, pc, req, badgeImagePath,
                 currentEvent, status, pre, stored, removed, committed, failed,
                 body, title, reply, prevPlain, side, arrived>>

\* The catch and finally blocks of handleVerify.
DialogFailed ==
  [dialog EXCEPT !.pc = "settled", !.toast = "Verification Failed",
                 !.isLoading = FALSE, !.netFailed = TRUE, !.slot = 0]

\* handleVerify up to the choice of badgeImageUrl.
HandleVerify ==
  /\ dialog.pc = "open"
  /\ dialog' =
       IF /\ dialog.selectedOption = "custom"
          /\ ~dialog.customImage
          /\ dialog.currentBadgeImage = Undefined
         THEN [dialog EXCEPT !.pc = "settled", !.toast = "Custom image required"]
       ELSE IF dialog.selectedOption = "custom" /\ dialog.customImage
         THEN [dialog EXCEPT !.pc = "upload", !.isLoading = TRUE]
       ELSE IF dialog.selectedOption # "custom"
         THEN [dialog EXCEPT
                 !.pc = "send", !.isLoading = TRUE,
                 !.badgeImageUrl =
                    IF BADGE_OPTIONS[dialog.selectedOption] = ""
                      THEN DefaultBadge
                      ELSE BADGE_OPTIONS[dialog.selectedOption]]
       ELSE [dialog EXCEPT !.pc = "send", !.isLoading = TRUE,
                           !.badgeImageUrl = dialog.currentBadgeImage]
  /\ UNCHANGED <<variant, event, assets, now, pc, req, badgeImagePath,
                 currentEvent, status, pre, stored, removed, committed, failed,
                 body, title, reply, prevPlain, side, arrived>>

\* The dialog uploads the custom image to the media host itself.
DialogUpload ==
  /\ dialog.pc = "upload"
  /\ \/ /\ assets' = assets \cup {"https://res.cloudinary.com/verified_badges/dialog"}
        /\ dialog' = [dialog EXCEPT
                        !.pc = "send",
                        !.badgeImageUrl =
                           "https://res.cloudinary.com/verified_badges/dialog"]
     \/ /\ dialog' = DialogFailed
        /\ UNCHANGED assets
  /\ UNCHANGED <<variant, event, now, pc, req, badgeImagePath,
                 currentEvent, status, pre, stored, removed, committed, failed,
                 body, title, reply, prevPlain, side, arrived>>

\* The sessions the dialog's request can carry.
DialogSessions ==
  {NoSession,
   [present |-> TRUE, role |-> "ADMIN", email |-> "admin@biz.com"],
   [present |-> TRUE, role |-> "USER", email |-> "admin@biz.com"]}

\* The dialog posts a JSON body to the verify route. The handler checks the
\* session and awaits request.formData(), which rejects for a body that is
\* neither multipart nor urlencoded: the catch block answers 500.
DialogSend(r) ==
  /\ dialog.pc = "send"
  /\ \A q \in Reqs : pc[q] = "idle"
  /\ now < MaxTime
  /\ \/ /\ dialog' = DialogFailed
        /\ UNCHANGED <<now, pc, req, status, pre, failed, body, arrived>>
     \/ \E s \in DialogSessions :
          /\ req' = [req EXCEPT ![r] =
                       [session |-> s, id |-> ExistingId,
                        isVerified |-> Undefined, badgeFile |-> Undefined,
                        json |-> [isVerified |-> TRUE,
                                  badgeImage |-> dialog.badgeImageUrl]]]
          /\ IF AuthStatus(s) # 200
               THEN /\ pc' = [pc EXCEPT ![r] = "done"]
                    /\ status' = [status EXCEPT ![r] = AuthStatus(s)]
                    /\ body' = [body EXCEPT ![r] = AuthBody(AuthStatus(s))]
                    /\ UNCHANGED failed
               ELSE Throw(r, "formData")
          /\ now' = now + 1
          /\ pre' = [pre EXCEPT ![r] = event]
          /\ arrived' = [arrived EXCEPT ![r] = now + 1]
          /\ dialog' = [dialog EXCEPT !.pc = "wait", !.slot = r, !.session = s]
  /\ UNCHANGED <<variant, event, assets, badgeImagePath, currentEvent,
                 stored, removed, committed, title, reply, prevPlain, side>>

\* The rest of handleVerify: response.ok, onVerifyComplete, onClose, finally.
DialogReceive ==
  /\ dialog.pc = "wait"
  /\ pc[dialog.slot] = "done"
  /\ dialog' =
       IF status[dialog.slot] = 200
         THEN [dialog EXCEPT !.pc = "settled", !.toast = "Event Verified",
                             !.completed = <<TRUE, dialog.badgeImageUrl>>,
                             !.isLoading = FALSE, !.slot = 0,
                             !.status = status[dialog.slot]]
         ELSE [DialogFailed EXCEPT !.netFailed = FALSE,
                                   !.status = status[dialog.slot]]
  /\ UNCHANGED <<variant, event, assets, now, pc, req, badgeImagePath,
                 currentEvent, status, pre, stored, removed, committed, failed,
                 body, title, reply, prevPlain, side, arrived>>

\* The dialog goes away; the next one starts from the initial state.
DialogDismiss ==
  /\ dialog.pc = "settled"
  /\ dialog' = NoDialog
  /\ UNCHANGED <<variant, event, assets, now, pc, req, badgeImagePath,
                 currentEvent, status, pre, stored, removed, committed, failed,
                 body, title, reply, prevPlain, side, arrived>>

ReceiveOther(r) ==
  /\ dialog.pc = "closed"
  /\ \A q \in Reqs : pc[q] = "idle"
  /\ Accept(r, PatchSessions, {ExistingId}, ConcFiles)

\* The response goes back once the dialog has read it.
RespondOther(r) ==
  /\ dialog.slot # r
  /\ Respond(r)

NextDialog ==
  \/ \E r \in Reqs :
       \/ ReceiveOther(r)
       \/ StoreBadge(r)
       \/ ReadCurrent(r)
       \/ DeleteOld(r)
       \/ UpdateEvent(r)
       \/ RespondOther(r)
       \/ DialogSend(r)
  \/ OpenDialog
  \/ HandleVerify
  \/ DialogUpload
  \/ DialogReceive
  \/ DialogDismiss

SpecDialog == Init /\ [][NextDialog]_vars

TypeOK ==
  /\ variant \in Variants
  /\ event.isVerified \in BOOLEAN
  /\ now \in 0..MaxTime
  /\ \A r \in Reqs : pc[r] \in {"idle", "store", "read", "delete", "update", "done"}
  /\ \A r \in Reqs : status[r] \in {0, 200, 401, 403, 500}
  /\ title \in Titles
  /\ prevPlain \in BOOLEAN

\* ------------------------------------------------------------------ claims

\* A request has answered 200, i.e. its record update went through.
Succeeded(r) ==
  pc[r] = "done" /\ status[r] = 200

\* C1: in every reachable state the event row has verifiedAt, verifiedBy and
\* verifiedBadgeImage all non-null when isVerified is true and all null when
\* isVerified is false.
C1_NoMixedState ==
  IF event.isVerified
    THEN /\ event.verifiedAt # NoDate
         /\ event.verifiedBy # Null
         /\ event.verifiedBadgeImage # Null
    ELSE /\ event.verifiedAt = NoDate
         /\ event.verifiedBy = Null
         /\ event.verifiedBadgeImage = Null

\* C2: after a successful POST with isVerified=true and no badge file the
\* badge reference is the previous one if there was one and the default
\* otherwise, and the request stored and deleted nothing.
C2_KeepsPreviousBadge ==
  \A r \in Reqs :
    (Succeeded(r) /\ req[r].isVerified /\ req[r].badgeFile = "none") =>
      /\ event.verifiedBadgeImage =
           (IF pre[r].verifiedBadgeImage # Null
              THEN pre[r].verifiedBadgeImage ELSE DefaultBadge)
      /\ stored[r] = {}
      /\ removed[r] = {}

\* C3: after a successful POST with isVerified=true and a badge file on an
\* already verified event the badge reference is the newly stored asset, and
\* the previous asset was deleted exactly when it was set, not the default
\* and different from the new one.
C3_UploadSupersedes ==
  \A r \in Reqs :
    (Succeeded(r) /\ req[r].isVerified /\ req[r].badgeFile = "file"
       /\ pre[r].isVerified) =>
      /\ event.verifiedBadgeImage \in stored[r]
      /\ (pre[r].verifiedBadgeImage \in removed[r]) <=>
           /\ pre[r].verifiedBadgeImage # Null
           /\ pre[r].verifiedBadgeImage # DefaultBadge
           /\ pre[r].verifiedBadgeImage # event.verifiedBadgeImage

\* C4: in every reachable state, failures included, the badge reference of
\* the event row names an asset that still exists.
C4_NoDanglingReference ==
  event.verifiedBadgeImage # Null => event.verifiedBadgeImage \in assets

\* C5: within a request the new asset is stored before the record update is
\* committed, and the previous asset is deleted only after that update has
\* committed.
C5_StoreBeforeCommitDeleteAfter ==
  [][\A r \in Reqs :
       /\ stored'[r] \ stored[r] # {} => ~committed[r] /\ ~committed'[r]
       /\ removed'[r] \ removed[r] # {} => committed[r]]_vars

\* C6: after a successful POST with isVerified=false the row is
\* {false, null, null, null}, whatever it was before.
C6_UnverifyClearsAllFields ==
  \A r \in Reqs :
    (Succeeded(r) /\ ~req[r].isVerified) => event = Unverified

C6_Witness ==
  \E r \in Reqs :
    /\ Succeeded(r) /\ ~req[r].isVerified
    /\ pre[r].isVerified
    /\ pre[r].verifiedBadgeImage # DefaultBadge

\* C7: when the badge store step fails the request answers with a failure,
\* performs no record update and leaves the four fields as they were.
C7_StoreFailureLeavesEvent ==
  \A r \in Reqs :
    "store" \in failed[r] =>
      /\ pc[r] = "done"
      /\ status[r] = 500
      /\ ~committed[r]
      /\ event = pre[r]

C7_Witness ==
  \E r \in Reqs :
    /\ "store" \in failed[r]
    /\ pc[r] = "done"
    /\ req[r].isVerified
    /\ pre[r].isVerified

\* C8: no request ever deletes the default badge asset.
C8_DefaultBadgeNeverDeleted ==
  /\ DefaultBadge \in assets
  /\ \A r \in Reqs : DefaultBadge \notin removed[r]

C8_Witness ==
  \E r \in Reqs :
    /\ variant # "cloud"
    /\ Succeeded(r) /\ ~req[r].isVerified
    /\ pre[r].verifiedBadgeImage = DefaultBadge
    /\ currentEvent[r] = DefaultBadge

\* C9: a successful POST with isVerified=false on an event whose badge is
\* set and is not the default deletes that badge asset, in every version of
\* the handler.
C9_UnverifyDeletesCustomBadge ==
  \A r \in Reqs :
    (Succeeded(r) /\ ~req[r].isVerified
       /\ pre[r].verifiedBadgeImage \notin {Null, DefaultBadge}) =>
      pre[r].verifiedBadgeImage \notin assets

\* C10: a POST with isVerified=false stores no badge asset, even when it
\* carries a non-empty badgeFile.
C10_UnverifyStoresNothing ==
  \A r \in Reqs :
    (pc[r] # "idle" /\ ~req[r].isVerified) => stored[r] = {}

\* C11: when deleting the previous badge asset fails, the failure is
\* swallowed: the record update takes effect with the requested state and
\* the request answers with success.
C11_DeleteFailureSwallowed ==
  \A r \in Reqs :
    (pc[r] = "done" /\ failed[r] = {"delete"}) =>
      /\ status[r] = 200
      /\ committed[r]
      /\ event.isVerified = req[r].isVerified

\* C12: two consecutive successful POSTs with isVerified=true and no badge
\* file leave the same verifiedBadgeImage after the second as after the first.
C12_PlainVerifyIdempotent ==
  \A r \in Reqs :
    (Succeeded(r) /\ req[r].isVerified /\ req[r].badgeFile = "none" /\ prevPlain) =>
      event.verifiedBadgeImage = pre[r].verifiedBadgeImage

C12_Witness ==
  \E r \in Reqs :
    /\ Succeeded(r) /\ req[r].isVerified /\ req[r].badgeFile = "none"
    /\ prevPlain
    /\ event.verifiedAt # pre[r].verifiedAt

\* C13: from an unverified event with null badge fields, a successful POST
\* with isVerified=true and no file by an authorized actor sets isVerified,
\* verifiedAt = the time of the request, verifiedBy = a non-null identity of
\* the actor and verifiedBadgeImage = the default badge.
C13_FirstVerify ==
  \A r \in Reqs :
    (Succeeded(r) /\ req[r].isVerified /\ req[r].badgeFile = "none"
       /\ pre[r] = Unverified) =>
      /\ event.isVerified
      /\ event.verifiedAt = now
      /\ event.verifiedBy # Null
      /\ req[r].session.email \notin {Null, Undefined} =>
           event.verifiedBy = req[r].session.email
      /\ event.verifiedBadgeImage = DefaultBadge

\* C15: a POST by an ADMIN or SUPER_ADMIN for an event id that does not
\* exist answers 404, stores and deletes no asset and changes no record.
C15_UnknownEvent404 ==
  \A r \in Reqs :
    (pc[r] = "done" /\ AuthStatus(req[r].session) = 200
       /\ req[r].id # ExistingId) =>
      /\ status[r] = 404
      /\ stored[r] = {}
      /\ removed[r] = {}
      /\ event = pre[r]

\* The request has read, written, stored and deleted nothing.
Untouched(r) ==
  /\ event = pre[r]
  /\ stored[r] = {}
  /\ removed[r] = {}
  /\ ~committed[r]
  /\ failed[r] = {}
  /\ badgeImagePath[r] = Null
  /\ currentEvent[r] = Null

\* C16: a POST without a session answers 401 and one whose role is neither
\* ADMIN nor SUPER_ADMIN answers 403; in both cases the body is not
\* processed, the record is unchanged and no asset is stored or deleted.
C16_AuthRejects ==
  \A r \in Reqs :
    pc[r] # "idle" =>
      /\ ~req[r].session.present =>
           pc[r] = "done" /\ status[r] = 401 /\ Untouched(r)
      /\ (req[r].session.present
            /\ req[r].session.role \notin {"ADMIN", "SUPER_ADMIN"}) =>
           pc[r] = "done" /\ status[r] = 403 /\ Untouched(r)

C16_Witness ==
  \E r \in Reqs :
    /\ status[r] = 403
    /\ req[r].isVerified
    /\ req[r].badgeFile = "file"
    /\ req[r].id = ExistingId
    /\ event.isVerified

\* The keys a response carries.
Has(b, key) == key \in DOMAIN b

\* C18: every successful POST answers 200 with success, a message and an
\* event subset whose four verification fields are the persisted ones.
C18_SuccessBody ==
  \A r \in Reqs :
    Succeeded(r) =>
      /\ Has(body[r], "success") /\ body[r].success = TRUE
      /\ Has(body[r], "message")
      /\ Has(body[r], "event")
      /\ Has(body[r].event, "isVerified")
      /\ Has(body[r].event, "verifiedAt")
      /\ Has(body[r].event, "verifiedBy")
      /\ Has(body[r].event, "verifiedBadgeImage")
      /\ body[r].event.isVerified = event.isVerified
      /\ body[r].event.verifiedAt = event.verifiedAt
      /\ body[r].event.verifiedBy = event.verifiedBy
      /\ body[r].event.verifiedBadgeImage = event.verifiedBadgeImage

\* ------------------------------------------------------------------ claims
\* (continued)

\* The verify GET answers 401 / 404 / the persisted fields, failures aside.
GetAnswers ==
  reply.op = "GET" =>
    /\ ~reply.session.present => reply.status = 401
    /\ (reply.session.present /\ ~reply.threw /\ reply.id # ExistingId) =>
         reply.status = 404
    /\ (reply.session.present /\ ~reply.threw /\ reply.id = ExistingId) =>
         /\ reply.status = 200
         /\ reply.body.event = Selected(ExistingId, title, event)

\* A step that produces the response of a verify GET.
GetStep ==
  reply' # reply /\ reply'.op = "GET"

\* The verify GET answers 401 / 404 / the persisted fields in every case.
GetAsStated ==
  reply.op = "GET" =>
    /\ ~reply.session.present => reply.status = 401
    /\ (reply.session.present /\ reply.id # ExistingId) => reply.status = 404
    /\ (reply.session.present /\ reply.id = ExistingId) =>
         /\ reply.status = 200
         /\ reply.body.event = Selected(ExistingId, title, event)

\* C17 as stated: the verify GET answers 401 without a session, 404 for an
\* unknown event id and otherwise the id, title and four verification fields
\* as persisted, and never changes the record or an asset.
C17_GetAsStated ==
  [][GetStep => GetAsStated' /\ UNCHANGED <<event, assets, title>>]_vars

\* C17 (amended): the verify GET answers 401 without a session; with a
\* session it answers 500 when the lookup throws, 404 for an unknown event
\* id, and otherwise the id, title and four verification fields as
\* persisted; it never changes the record or an asset.
C17_GetReadsPersisted ==
  [][GetStep =>
       /\ GetAnswers'
       /\ reply'.threw => reply'.status = 500
       /\ UNCHANGED <<event, assets, title>>]_vars

C17_Witness ==
  /\ reply.op = "GET"
  /\ reply.status = 200
  /\ event.isVerified
  /\ event.verifiedBadgeImage # DefaultBadge

\* The messages of the exceptions the handlers can catch.
InternalMessages ==
  {ErrorMessage(x) : x \in Steps \cup {"findUnique", "findMany"}}

\* The response body repeats the message of an internal error.
Leaks(b) ==
  \E k \in DOMAIN b \cap {"error", "message", "details"} : b[k] \in InternalMessages

\* C19: no error response of the verify POST, the verify GET, the event list
\* GET or the event PATCH carries the message of the internal error.
C19_GenericErrors ==
  /\ \A r \in Reqs : ~Leaks(body[r])
  /\ ~Leaks(reply.body)

\* null, the default badge or an uploaded badge.
BadgeKind(ref) ==
  IF ref = Null THEN "null"
  ELSE IF ref = DefaultBadge THEN "default" ELSE "custom"

\* What two versions of the handler have to agree on: the row, up to the
\* name the storage gave to an uploaded badge, and the response status.
Observed(x) ==
  [isVerified |-> side[x].event.isVerified,
   verifiedAt |-> side[x].event.verifiedAt,
   verifiedBy |-> side[x].event.verifiedBy,
   badge      |-> BadgeKind(side[x].event.verifiedBadgeImage),
   status     |-> side[x].status]

\* C14: run side by side on the same requests, actors and failure outcomes,
\* the three versions of the verify POST persist the same four verification
\* fields and answer with the same status after every request.
C14_SameStateMachine ==
  \A x, y \in Variants : Observed(x) = Observed(y)

\* Both requests of the pair have answered 200 and no step of them threw.
CleanPair ==
  \A r \in Pair : Succeeded(r) /\ failed[r] = {}

\* The request of the pair that arrived first; its snapshot is the row the
\* pair started from.
First ==
  CHOOSE r \in Pair : \A q \in Pair : arrived[r] <= arrived[q]

\* The assets that existed when the pair started.
BaseAssets ==
  (assets \cup UNION {removed[r] : r \in Pair}) \ UNION {stored[r] : r \in Pair}

\* The clock at the store step and at the update of a request of the pair.
StoreTime(r) ==
  IF stored[r] = {} THEN 0
  ELSE CHOOSE t \in 0..now : NewRef(variant, t) \in stored[r]

UpdateTime(r) ==
  body[r].event.verifiedAt

\* The row and the assets after request a, then request b, each run alone.
Serial(a, b) ==
  LET h1 == Handle(variant, pre[First], BaseAssets, req[a],
                   StoreTime(a), UpdateTime(a), {})
      h2 == Handle(variant, h1.event, h1.assets, req[b],
                   StoreTime(b), UpdateTime(b), {})
  IN  [event |-> h2.event, assets |-> h2.assets]

SerialOutcomes ==
  {Serial(a, b) : <<a, b>> \in {<<1, 2>>, <<2, 1>>}}

NoFields ==
  [isVerified |-> FALSE, verifiedAt |-> NoDate,
   verifiedBy |-> Undefined, verifiedBadgeImage |-> Undefined]

OwnData(r) ==
  UpdateData(variant, req[r].isVerified, req[r].session.email,
             badgeImagePath[r], now, NoFields)

\* C21: under every interleaving of two concurrent verify POSTs, each change
\* of the event row is the update of one request and leaves the row with the
\* four fields that this request wrote together; the row never holds
\* isVerified of one request next to a verifiedAt, verifiedBy or
\* verifiedBadgeImage that this request did not write.
C21_FieldsWrittenTogether ==
  [][event' # event =>
       \E r \in Pair : pc[r] = "update" /\ pc'[r] = "done" /\ event' = OwnData(r)]_vars


\* A step that produces the response of an event PATCH.
PatchStep ==
  reply' # reply /\ reply'.op = "PATCH"

\* The assets that existed when request r arrived, r being served alone.
AssetsBefore(r) ==
  (assets \cup removed[r]) \ stored[r]

\* The row, the assets and the status of request r are those of the handler
\* run on the row and the assets the request found, with no PATCH around.
AsPostAlone(r) ==
  [event |-> event, assets |-> assets, status |-> status[r]] =
    Handle(variant, pre[r], AssetsBefore(r), req[r], arrived[r], arrived[r],
           failed[r])

\* C22: the event PATCH writes a field of the row only when its key is
\* present in the request body, and never changes the four verification
\* fields or an asset; served at any moment between the steps of verify
\* POSTs, it leaves every POST with the row, the assets and the status the
\* POST produces alone.
C22_PatchFrame ==
  [][/\ PatchStep =>
          /\ UNCHANGED <<event, assets>>
          /\ title' = IF reply'.status = 200 /\ reply'.data.title # Undefined
                        THEN reply'.data.title ELSE title
     /\ \A r \in Reqs : (pc[r] # "done" /\ pc'[r] = "done") => AsPostAlone(r)']_vars

C22_Witness ==
  /\ reply.op = "PATCH"
  /\ reply.status = 200
  /\ reply.data.title = "Fair"
  /\ title = "Fair"
  /\ \E r \in Reqs :
       /\ Succeeded(r)
       /\ body[r].event.isVerified
       /\ event.verifiedBadgeImage \notin {Null, DefaultBadge}
       /\ variant # "cloud" => body[r].event.title = "Fair"


\* handleVerify has returned for a non-custom option, with an authorised
\* session and without a failure of the network.
DialogRanClean ==
  /\ dialog.pc = "settled"
  /\ dialog.selectedOption # "custom"
  /\ ~dialog.netFailed
  /\ AuthStatus(dialog.session) = 200

\* C23: when handleVerify has run with a non-custom badge option and neither
\* the network nor the storage failed, the server has accepted the verify
\* POST, the event row has isVerified = true and verifiedBadgeImage equal to
\* the image URL of the option, onVerifyComplete(true, thatUrl) has been
\* called and isLoading is false again.
C23_DialogVerifies ==
  DialogRanClean =>
    /\ dialog.status = 200
    /\ event.isVerified
    /\ event.verifiedBadgeImage = BADGE_OPTIONS[dialog.selectedOption]
    /\ dialog.completed = <<TRUE, BADGE_OPTIONS[dialog.selectedOption]>>
    /\ ~dialog.isLoading

====
